---- MODULE Spec2Model ----
(***************************************************************************)
(* Model of package average (slidingwindow.go): a sliding time window made *)
(* of a ring of buckets, a shifter goroutine that rotates the ring on      *)
(* every tick, and the callers' operations Add, Total, Average, Reset and  *)
(* Stop, with the RWMutex, the sync.Once and the unbuffered stop channel   *)
(* they synchronise on.                                                    *)
(*                                                                         *)
(* Durations are integers (time.Duration is an int64 count); bucket values *)
(* are integers standing for float64 values that are exactly representable *)
(* (sums of small integers), and a float64 quotient is its reduced         *)
(* fraction.                                                               *)
(***************************************************************************)
EXTENDS Integers, Sequences, FiniteSets, TLC

\* ---------------------------------------------------------------- bounds
\* Durations passed to New range over -MaxWindow..MaxWindow.
MaxWindow == 4
\* Number of Add calls made in one behaviour.
MaxAdds == 2
\* Number of caller goroutines.
NumCallers == 2

\* The shifter goroutine's identity as a holder of the mutex.
ShifterId == 0

Callers == 1..NumCallers
Durations == (0 - MaxWindow)..MaxWindow
\* Look-back durations given to Total and Average: zero, inside the window,
\* and beyond the largest window.
Lookbacks == 0..(MaxWindow + 1)
\* Values given to Add.
AddValues == {-1, 2}

ErrWindow == "window cannot be 0"
ErrGranularity == "granularity cannot be 0"
ErrMultiplier == "window size has to be a multiplier of the granularity size"
PanicMakeslice == "panic: makeslice: len out of range"

VARIABLES
    inW,          \* the window given to New
    inG,          \* the granularity given to New
    err,          \* New's outcome: "" on success, else the error (or panic) text
    window,       \* sw.window
    granularity,  \* sw.granularity
    samples,      \* sw.samples, a function on 0..len-1
    counts,       \* sw.counts
    pos,          \* sw.pos
    size,         \* sw.size
    shifter,      \* the shifter goroutine's position
    muW,          \* RWMutex: the set (at most one) of holders of the write lock
    muPending,    \* RWMutex: the set (at most one) of writers waiting for readers
    muR,          \* RWMutex: the set of holders of the read lock
    onceDone,     \* stopOnce: done flag
    onceM,        \* stopOnce: the set (at most one) of holders of its mutex
    sends,        \* how many times the send statement of Stop was started
    stopReturned, \* whether some call of Stop has returned
    pc,           \* each caller's position
    frame,        \* each caller's call: function and live locals (v, sampleCount)
    nAdds         \* number of Add calls made so far

vars == <<inW, inG, err, window, granularity, samples, counts, pos, size, shifter, muW, muPending,
          muR, onceDone, onceM, sends, stopReturned, pc, frame, nAdds>>

\* ------------------------------------------------------- Go arithmetic
Abs(x) == IF x < 0 THEN 0 - x ELSE x

\* Go's integer division truncates toward zero.
GoDiv(a, b) ==
    IF (a < 0) = (b < 0) THEN Abs(a) \div Abs(b) ELSE 0 - (Abs(a) \div Abs(b))

\* Go's remainder has the sign of the dividend.
GoRem(a, b) == a - b * GoDiv(a, b)

RECURSIVE Gcd(_, _)
Gcd(a, b) == IF b = 0 THEN a ELSE Gcd(b, a % b)

\* The float64 quotient t / n (n > 0) as a reduced fraction.
Quotient(t, n) ==
    LET g == Gcd(Abs(t), n) IN [num |-> t \div g, den |-> n \div g]

Len0(f) == Cardinality(DOMAIN f)

\* ---------------------------------------------------------------- New
NoInstance(e) ==
    [err |-> e, window |-> 0, granularity |-> 0, samples |-> <<>>, counts |-> <<>>,
     pos |-> 0, size |-> 0, shifter |-> "none"]

\* A faulty New: the granularity is validated before the window.
NewGranularityFirst(w, g) ==
    IF g = 0 THEN NoInstance(ErrGranularity)
    ELSE IF w = 0 THEN NoInstance(ErrWindow)
    ELSE IF w <= g \/ GoRem(w, g) # 0 THEN NoInstance(ErrMultiplier)
    ELSE IF GoDiv(w, g) < 0 THEN NoInstance(PanicMakeslice)
    ELSE [err |-> "", window |-> w, granularity |-> g,
          samples |-> [i \in 0..(GoDiv(w, g) - 1) |-> 0],
          counts |-> [i \in 0..(GoDiv(w, g) - 1) |-> 0],
          pos |-> 0,
          size |-> GoDiv(w, g),
          shifter |-> "spawned"]

\* A faulty New: size is left at its zero value.
NewSizeUnset(w, g) ==
    IF w = 0 THEN NoInstance(ErrWindow)
    ELSE IF g = 0 THEN NoInstance(ErrGranularity)
    ELSE IF w <= g \/ GoRem(w, g) # 0 THEN NoInstance(ErrMultiplier)
    ELSE IF GoDiv(w, g) < 0 THEN NoInstance(PanicMakeslice)
    ELSE [err |-> "", window |-> w, granularity |-> g,
          samples |-> [i \in 0..(GoDiv(w, g) - 1) |-> 0],
          counts |-> [i \in 0..(GoDiv(w, g) - 1) |-> 0],
          pos |-> 0,
          size |-> 0,
          shifter |-> "spawned"]

\* Lines 37-45: the validation, in the code's order; line 50: make panics on a
\* negative length; lines 47-56: the instance and its shifter goroutine.
New(w, g) ==
    IF w = 0 THEN NoInstance(ErrWindow)
    ELSE IF g = 0 THEN NoInstance(ErrGranularity)
    ELSE IF w <= g \/ GoRem(w, g) # 0 THEN NoInstance(ErrMultiplier)
    ELSE IF GoDiv(w, g) < 0 THEN NoInstance(PanicMakeslice)
    ELSE [err |-> "", window |-> w, granularity |-> g,
          samples |-> [i \in 0..(GoDiv(w, g) - 1) |-> 0],
          counts |-> [i \in 0..(GoDiv(w, g) - 1) |-> 0],
          pos |-> 0,
          size |-> GoDiv(w, g),
          shifter |-> "spawned"]

NoFrame == [fn |-> "", arg |-> 0, sampleCount |-> 0]

InitFrom(sw) ==
    /\ err = sw.err
    /\ window = sw.window
    /\ granularity = sw.granularity
    /\ samples = sw.samples
    /\ counts = sw.counts
    /\ pos = sw.pos
    /\ size = sw.size
    /\ shifter = sw.shifter
    /\ muW = {}
    /\ muPending = {}
    /\ muR = {}
    /\ onceDone = FALSE
    /\ onceM = {}
    /\ sends = 0
    /\ stopReturned = FALSE
    /\ pc = [c \in Callers |-> "idle"]
    /\ frame = [c \in Callers |-> NoFrame]
    /\ nAdds = 0

Init ==
    \E w \in Durations, g \in Durations :
        /\ inW = w
        /\ inG = g
        /\ InitFrom(New(w, g))

Constructed == err = ""

\* ------------------------------------------------------------ RWMutex
\* sync.RWMutex as the code uses it. Lock first takes the writers' mutex and
\* announces the writer, which keeps new readers out, then waits for the
\* readers inside to leave; Unlock lets in the readers that were kept out.

\* Lock, first part, by process p: it is the one writer; it has the lock at
\* once when no reader is inside.
LockEnter(p) ==
    /\ muW = {}
    /\ muPending = {}
    /\ IF muR = {}
       THEN muW' = {p} /\ UNCHANGED muPending
       ELSE muPending' = {p} /\ UNCHANGED muW

\* Lock, second part: the last reader has left.
LockDrained(p) ==
    /\ muPending = {p}
    /\ muR = {}
    /\ muPending' = {}
    /\ muW' = {p}

\* The callers whose RLock waits for the writer.
BlockedReaders == {c \in Callers : pc[c] = "TotalRWait"}

\* A faulty Unlock: the readers kept out are left waiting.
UnlockLeavesReadersOut(p, f) ==
    /\ muW' = muW \ {p}
    /\ muR' = muR
    /\ pc' = f

\* Unlock by process p, after which the callers are at the places f: the
\* readers kept out are let in.
Unlock(p, f) ==
    /\ muW' = muW \ {p}
    /\ muR' = BlockedReaders
    /\ pc' = [c \in Callers |-> IF f[c] = "TotalRWait" THEN "TotalLoop" ELSE f[c]]

\* ------------------------------------------------------------ shifter
\* go sw.shifter(): the goroutine creates its ticker and enters the select.
ShifterStart ==
    /\ shifter = "spawned"
    /\ shifter' = "select"
    /\ UNCHANGED <<inW, inG, err, window, granularity, samples, counts, pos, size, muW,
                   muPending, muR, onceDone, onceM, sends, stopReturned, pc, frame, nAdds>>

\* case <-ticker.C: the select takes the tick branch and goes to sw.Lock().
ShifterTick ==
    /\ shifter = "select"
    /\ shifter' = "tickLock"
    /\ UNCHANGED <<inW, inG, err, window, granularity, samples, counts, pos, size, muW,
                   muPending, muR, onceDone, onceM, sends, stopReturned, pc, frame, nAdds>>

\* Line 66, sw.Lock().
ShifterLock ==
    /\ shifter = "tickLock"
    /\ LockEnter(ShifterId)
    /\ shifter' = IF muR = {} THEN "tickCS" ELSE "tickWait"
    /\ UNCHANGED <<inW, inG, err, window, granularity, samples, counts, pos, size, muR,
                   onceDone, onceM, sends, stopReturned, pc, frame, nAdds>>

ShifterWait ==
    /\ shifter = "tickWait"
    /\ LockDrained(ShifterId)
    /\ shifter' = "tickCS"
    /\ UNCHANGED <<inW, inG, err, window, granularity, samples, counts, pos, size, muR,
                   onceDone, onceM, sends, stopReturned, pc, frame, nAdds>>

\* A faulty tick: the cursor moves backward round the ring.
NextPosBackward(p, n) == IF p - 1 < 0 THEN n - 1 ELSE p - 1

\* A faulty wrap: the cursor is taken back one position too late.
NextPosWrapsLate(p, n) == IF p + 1 > n THEN 0 ELSE p + 1

\* Lines 67-69: the cursor after a tick, in a ring of n buckets.
NextPos(p, n) == IF p + 1 >= n THEN 0 ELSE p + 1

\* A faulty tick: the new current bucket's value is left as it was.
ShifterRotateKeepsSample ==
    /\ shifter = "tickCS"
    /\ pos' = NextPos(pos, Len0(samples))
    /\ counts' = [counts EXCEPT ![pos'] = 0]
    /\ Unlock(ShifterId, pc)
    /\ shifter' = "select"
    /\ UNCHANGED <<inW, inG, err, window, granularity, samples, size, muPending,
                   onceDone, onceM, sends, stopReturned, frame, nAdds>>

\* A faulty tick: the new current bucket's count is left as it was.
ShifterRotateKeepsCount ==
    /\ shifter = "tickCS"
    /\ pos' = NextPos(pos, Len0(samples))
    /\ samples' = [samples EXCEPT ![pos'] = 0]
    /\ Unlock(ShifterId, pc)
    /\ shifter' = "select"
    /\ UNCHANGED <<inW, inG, err, window, granularity, counts, size, muPending,
                   onceDone, onceM, sends, stopReturned, frame, nAdds>>

\* The tick's critical section, lines 67-72.
ShifterRotate ==
    /\ shifter = "tickCS"
    /\ pos' = NextPos(pos, Len0(samples))
    /\ samples' = [samples EXCEPT ![pos'] = 0]
    /\ counts' = [counts EXCEPT ![pos'] = 0]
    /\ Unlock(ShifterId, pc)
    /\ shifter' = "select"
    /\ UNCHANGED <<inW, inG, err, window, granularity, size, muPending,
                   onceDone, onceM, sends, stopReturned, frame, nAdds>>

\* ---------------------------------------------------------------- Add
AddCall(c, v) ==
    /\ Constructed
    /\ pc[c] = "idle"
    /\ nAdds < MaxAdds
    /\ nAdds' = nAdds + 1
    /\ pc' = [pc EXCEPT ![c] = "AddLock"]
    /\ frame' = [frame EXCEPT ![c] = [fn |-> "Add", arg |-> v, sampleCount |-> 0]]
    /\ UNCHANGED <<inW, inG, err, window, granularity, samples, counts, pos, size, shifter,
                   muW, muPending, muR, onceDone, onceM, sends, stopReturned>>

\* Line 82, sw.Lock().
AddLock(c) ==
    /\ pc[c] = "AddLock"
    /\ LockEnter(c)
    /\ pc' = [pc EXCEPT ![c] = IF muR = {} THEN "AddCS" ELSE "AddWait"]
    /\ UNCHANGED <<inW, inG, err, window, granularity, samples, counts, pos, size, shifter,
                   muR, onceDone, onceM, sends, stopReturned, frame, nAdds>>

AddWait(c) ==
    /\ pc[c] = "AddWait"
    /\ LockDrained(c)
    /\ pc' = [pc EXCEPT ![c] = "AddCS"]
    /\ UNCHANGED <<inW, inG, err, window, granularity, samples, counts, pos, size, shifter,
                   muR, onceDone, onceM, sends, stopReturned, frame, nAdds>>

\* A faulty Add: it writes the first bucket, not the cursor's.
AddBodyFirstBucket(c) ==
    /\ pc[c] = "AddCS"
    /\ samples' = [samples EXCEPT ![0] = @ + frame[c].arg]
    /\ counts' = [counts EXCEPT ![0] = @ + 1]
    /\ Unlock(c, [pc EXCEPT ![c] = "idle"])
    /\ frame' = [frame EXCEPT ![c] = NoFrame]
    /\ UNCHANGED <<inW, inG, err, window, granularity, pos, size, shifter,
                   muPending, onceDone, onceM, sends, stopReturned, nAdds>>

\* Add's critical section, lines 83-85.
AddBody(c) ==
    /\ pc[c] = "AddCS"
    /\ samples' = [samples EXCEPT ![pos] = @ + frame[c].arg]
    /\ counts' = [counts EXCEPT ![pos] = @ + 1]
    /\ Unlock(c, [pc EXCEPT ![c] = "idle"])
    /\ frame' = [frame EXCEPT ![c] = NoFrame]
    /\ UNCHANGED <<inW, inG, err, window, granularity, pos, size, shifter,
                   muPending, onceDone, onceM, sends, stopReturned, nAdds>>

\* -------------------------------------------------------------- Reset
ResetCall(c) ==
    /\ Constructed
    /\ pc[c] = "idle"
    /\ pc' = [pc EXCEPT ![c] = "ResetLock"]
    /\ frame' = [frame EXCEPT ![c] = [NoFrame EXCEPT !.fn = "Reset"]]
    /\ UNCHANGED <<inW, inG, err, window, granularity, samples, counts, pos, size, shifter,
                   muW, muPending, muR, onceDone, onceM, sends, stopReturned, nAdds>>

\* Line 100, sw.Lock().
ResetLock(c) ==
    /\ pc[c] = "ResetLock"
    /\ LockEnter(c)
    /\ pc' = [pc EXCEPT ![c] = IF muR = {} THEN "ResetCS" ELSE "ResetWait"]
    /\ UNCHANGED <<inW, inG, err, window, granularity, samples, counts, pos, size, shifter,
                   muR, onceDone, onceM, sends, stopReturned, frame, nAdds>>

ResetWait(c) ==
    /\ pc[c] = "ResetWait"
    /\ LockDrained(c)
    /\ pc' = [pc EXCEPT ![c] = "ResetCS"]
    /\ UNCHANGED <<inW, inG, err, window, granularity, samples, counts, pos, size, shifter,
                   muR, onceDone, onceM, sends, stopReturned, frame, nAdds>>

\* Reset's critical section, lines 103-107, and the deferred Unlock.
ResetBody(c) ==
    /\ pc[c] = "ResetCS"
    /\ pos' = 0
    /\ size' = 0
    /\ samples' = [i \in DOMAIN samples |-> 0]
    /\ counts' = [i \in DOMAIN counts |-> 0]
    /\ Unlock(c, [pc EXCEPT ![c] = "idle"])
    /\ frame' = [frame EXCEPT ![c] = NoFrame]
    /\ UNCHANGED <<inW, inG, err, window, granularity, shifter,
                   muPending, onceDone, onceM, sends, stopReturned, nAdds>>

\* -------------------------------------------------------------- Total
\* A faulty clamp: a window beyond sw.window is treated as empty.
ClampWindowToZero(w) == IF w > window THEN 0 ELSE w

\* Lines 121-123: a window larger than sw.window is cut down to it.
ClampWindow(w) == IF w > window THEN window ELSE w

\* A faulty sampleCount: sw.size is not consulted.
SampleCountIgnoresSize(w, sz) == GoDiv(ClampWindow(w), granularity)

\* Lines 126-129: the number of buckets to sum, given the value read from sw.size.
SampleCount(w, sz) ==
    LET n == GoDiv(ClampWindow(w), granularity)
    IN  IF n > sz THEN sz ELSE n

\* A faulty walk: forward from the cursor instead of backward.
LoopPosForward(i) ==
    IF pos + i >= Len0(samples) THEN (pos + i) - Len0(samples) ELSE pos + i

\* Lines 136-139: the bucket visited by iteration i of the loop.
LoopPos(i) == IF pos - i < 0 THEN (pos - i) + Len0(samples) ELSE pos - i

\* A faulty loop: totalCount counts the buckets visited, not their samples.
RECURSIVE SumLoopCountsBuckets(_, _, _, _)
SumLoopCountsBuckets(i, n, total, totalCount) ==
    IF i < n
    THEN SumLoopCountsBuckets(i + 1, n, total + samples[LoopPos(i)], totalCount + 1)
    ELSE <<total, totalCount>>

\* Lines 134-143: the loop, from iteration i with the running total and totalCount.
RECURSIVE SumLoop(_, _, _, _)
SumLoop(i, n, total, totalCount) ==
    IF i < n
    THEN SumLoop(i + 1, n, total + samples[LoopPos(i)], totalCount + counts[LoopPos(i)])
    ELSE <<total, totalCount>>

\* Total(w) run without interruption in the current state.
Total(w) == SumLoop(0, SampleCount(w, size), 0, 0)

\* A faulty Average: the division is done on integers.
AverageOfIntegers(t) ==
    IF t[2] = 0 THEN [num |-> 0, den |-> 1] ELSE [num |-> GoDiv(t[1], t[2]), den |-> 1]

\* Lines 91-95: Average's result from Total's, as a fraction.
AverageOf(t) == IF t[2] = 0 THEN [num |-> 0, den |-> 1] ELSE Quotient(t[1], t[2])

\* Average(w) run without interruption in the current state.
Average(w) == AverageOf(Total(w))

\* A call of Total, or of Average (which calls Total), up to line 129: the
\* window is clamped and sampleCount computed from sw.size, read without a lock.
TotalCall(c, fn, w) ==
    /\ Constructed
    /\ pc[c] = "idle"
    /\ pc' = [pc EXCEPT ![c] = "TotalRLock"]
    /\ frame' = [frame EXCEPT ![c] =
                    [fn |-> fn, arg |-> 0, sampleCount |-> SampleCount(w, size)]]
    /\ UNCHANGED <<inW, inG, err, window, granularity, samples, counts, pos, size, shifter,
                   muW, muPending, muR, onceDone, onceM, sends, stopReturned, nAdds>>

\* Line 131, sw.RLock(): the reader is inside at once unless a writer holds
\* the lock or has announced itself; then it waits for that writer's Unlock.
TotalRLock(c) ==
    /\ pc[c] = "TotalRLock"
    /\ IF muW = {} /\ muPending = {}
       THEN /\ muR' = muR \cup {c}
            /\ pc' = [pc EXCEPT ![c] = "TotalLoop"]
       ELSE /\ pc' = [pc EXCEPT ![c] = "TotalRWait"]
            /\ UNCHANGED muR
    /\ UNCHANGED <<inW, inG, err, window, granularity, samples, counts, pos, size, shifter,
                   muW, muPending, onceDone, onceM, sends, stopReturned, frame, nAdds>>

\* What the call of caller c, holding the read lock, returns at line 145: the
\* loop's pair (the state cannot change under the read lock).
TotalReturns(c) == SumLoop(0, frame[c].sampleCount, 0, 0)

\* What a call of Average returns from that pair.
AverageReturns(c) == AverageOf(TotalReturns(c))

\* Lines 134-145 under the read lock, the deferred RUnlock, and the return.
TotalLoop(c) ==
    /\ pc[c] = "TotalLoop"
    /\ muR' = muR \ {c}
    /\ pc' = [pc EXCEPT ![c] = "idle"]
    /\ frame' = [frame EXCEPT ![c] = NoFrame]
    /\ UNCHANGED <<inW, inG, err, window, granularity, samples, counts, pos, size, shifter,
                   muW, muPending, onceDone, onceM, sends, stopReturned, nAdds>>

\* --------------------------------------------------------------- Stop
StopCall(c) ==
    /\ Constructed
    /\ pc[c] = "idle"
    /\ pc' = [pc EXCEPT ![c] = "OnceDo"]
    /\ frame' = [frame EXCEPT ![c] = [NoFrame EXCEPT !.fn = "Stop"]]
    /\ UNCHANGED <<inW, inG, err, window, granularity, samples, counts, pos, size, shifter,
                   muW, muPending, muR, onceDone, onceM, sends, stopReturned, nAdds>>

\* Stop returns to its caller.
StopReturn(c) ==
    /\ pc' = [pc EXCEPT ![c] = "idle"]
    /\ frame' = [frame EXCEPT ![c] = NoFrame]
    /\ stopReturned' = TRUE

\* stopOnce.Do, fast path: a set done flag returns at once.
OnceDo(c) ==
    /\ pc[c] = "OnceDo"
    /\ IF onceDone
       THEN StopReturn(c)
       ELSE /\ pc' = [pc EXCEPT ![c] = "OnceLock"]
            /\ UNCHANGED <<frame, stopReturned>>
    /\ UNCHANGED <<inW, inG, err, window, granularity, samples, counts, pos, size, shifter,
                   muW, muPending, muR, onceDone, onceM, sends, nAdds>>

\* stopOnce.Do, slow path: take the Once's mutex.
OnceLock(c) ==
    /\ pc[c] = "OnceLock"
    /\ onceM = {}
    /\ onceM' = {c}
    /\ pc' = [pc EXCEPT ![c] = "OnceSlow"]
    /\ UNCHANGED <<inW, inG, err, window, granularity, samples, counts, pos, size, shifter,
                   muW, muPending, muR, onceDone, sends, stopReturned, frame, nAdds>>

\* A faulty Once: the function runs on every call.
OnceRunsAlways == TRUE

\* Whether the slow path runs the function: only while done is unset.
OnceRuns == ~onceDone

\* stopOnce.Do, slow path under the mutex: run the function (line 114 starts
\* the send) unless done was set meanwhile.
OnceSlow(c) ==
    /\ pc[c] = "OnceSlow"
    /\ IF OnceRuns
       THEN /\ sends' = sends + 1
            /\ pc' = [pc EXCEPT ![c] = "StopSend"]
            /\ UNCHANGED <<onceM, frame, stopReturned>>
       ELSE /\ onceM' = onceM \ {c}
            /\ StopReturn(c)
            /\ UNCHANGED sends
    /\ UNCHANGED <<inW, inG, err, window, granularity, samples, counts, pos, size, shifter,
                   muW, muPending, muR, onceDone, nAdds>>

\* A faulty shifter: on the stop signal it goes round the loop again.
StopSendRecvNoReturn(c) ==
    /\ pc[c] = "StopSend"
    /\ shifter = "select"
    /\ shifter' = "select"
    /\ pc' = [pc EXCEPT ![c] = "OnceDefer"]
    /\ UNCHANGED <<inW, inG, err, window, granularity, samples, counts, pos, size,
                   muW, muPending, muR, onceDone, onceM, sends, stopReturned, frame, nAdds>>

\* The unbuffered channel: Stop's send (line 114) completes together with the
\* shifter's receive in its select (line 74), and the shifter returns.
StopSendRecv(c) ==
    /\ pc[c] = "StopSend"
    /\ shifter = "select"
    /\ shifter' = "returned"
    /\ pc' = [pc EXCEPT ![c] = "OnceDefer"]
    /\ UNCHANGED <<inW, inG, err, window, granularity, samples, counts, pos, size,
                   muW, muPending, muR, onceDone, onceM, sends, stopReturned, frame, nAdds>>

\* The function has returned: the deferred done.Store(1) and m.Unlock() run,
\* and Stop returns.
OnceDefer(c) ==
    /\ pc[c] = "OnceDefer"
    /\ onceDone' = TRUE
    /\ onceM' = onceM \ {c}
    /\ StopReturn(c)
    /\ UNCHANGED <<inW, inG, err, window, granularity, samples, counts, pos, size, shifter,
                   muW, muPending, muR, sends, nAdds>>

\* ---------------------------------------------------------------- Next
Next ==
    \/ ShifterStart
    \/ ShifterTick
    \/ ShifterLock
    \/ ShifterWait
    \/ ShifterRotate
    \/ \E c \in Callers, v \in AddValues : AddCall(c, v)
    \/ \E c \in Callers : AddLock(c)
    \/ \E c \in Callers : AddWait(c)
    \/ \E c \in Callers : AddBody(c)
    \/ \E c \in Callers : ResetCall(c)
    \/ \E c \in Callers : ResetLock(c)
    \/ \E c \in Callers : ResetWait(c)
    \/ \E c \in Callers : ResetBody(c)
    \/ \E c \in Callers, fn \in {"Total", "Average"}, w \in Lookbacks : TotalCall(c, fn, w)
    \/ \E c \in Callers : TotalRLock(c)
    \/ \E c \in Callers : TotalLoop(c)
    \/ \E c \in Callers : StopCall(c)
    \/ \E c \in Callers : OnceDo(c)
    \/ \E c \in Callers : OnceLock(c)
    \/ \E c \in Callers : OnceSlow(c)
    \/ \E c \in Callers : StopSendRecv(c)
    \/ \E c \in Callers : OnceDefer(c)

Spec == Init /\ [][Next]_vars

\* ------------------------------------------------------------ fairness
\* The Go scheduler runs every runnable goroutine: weak fairness of the steps
\* that wait for nothing. A goroutine waiting for the RWMutex or for the Once's
\* mutex gets it in the end (sync's mutexes hand over to starving waiters), and
\* a select whose stop case is ready again and again takes it in the end
\* (select chooses among its ready cases at random): strong fairness of the
\* acquisitions and of the channel's hand-over. A caller is at one place at a
\* time, so fairness is stated once per caller over its steps of each kind.
\* No fairness is asked of the ticker or of the callers' decisions to call.
\* A caller's steps that wait for nothing, or for readers that no new reader
\* can follow.
CallerStep(c) ==
    \/ AddWait(c) \/ AddBody(c)
    \/ ResetWait(c) \/ ResetBody(c)
    \/ TotalRLock(c) \/ TotalLoop(c)
    \/ OnceDo(c) \/ OnceSlow(c) \/ OnceDefer(c)

\* A caller's steps that compete for a mutex or wait for the channel's receiver.
CallerWait(c) == AddLock(c) \/ ResetLock(c) \/ OnceLock(c) \/ StopSendRecv(c)

Fairness ==
    /\ WF_vars(ShifterStart \/ ShifterWait \/ ShifterRotate)
    /\ SF_vars(ShifterLock)
    /\ \A c \in Callers : WF_vars(CallerStep(c)) /\ SF_vars(CallerWait(c))

\* One window, New(2, 1), under fair scheduling.
InitLive ==
    /\ inW = 2
    /\ inG = 1
    /\ InitFrom(New(2, 1))

SpecLive == InitLive /\ [][Next]_vars /\ Fairness

\* ------------------------------------------------- the tests' literals
\* A SlidingWindow built as a struct literal by a test, in units of its
\* granularity: no shifter goroutine, a nil stop channel.
InitLiteral(w, g, s, n, p, sz) ==
    /\ inW = w
    /\ inG = g
    /\ InitFrom([err |-> "", window |-> w, granularity |-> g, samples |-> s,
                 counts |-> n, pos |-> p, size |-> sz, shifter |-> "none"])

\* slidingwindow_test.go, TestAverage.
TestAverageSamples ==
    [i \in 0..9 |-> <<20, 4, 5, 0, 0, 0, 0, 0, 4, 10>>[i + 1]]

TestAverageCounts ==
    [i \in 0..9 |-> <<10, 2, 5, 0, 0, 0, 0, 0, 4, 2>>[i + 1]]

\* slidingwindow_test.go, TestTotal.
TestTotalSamples ==
    [i \in 0..9 |-> <<1, 2, 5, 0, 0, 0, 0, 0, 4, 0>>[i + 1]]

TestTotalCounts ==
    [i \in 0..9 |-> <<1, 2, 2, 0, 0, 0, 0, 0, 4, 0>>[i + 1]]

InitTests ==
    \/ InitLiteral(10, 1, TestAverageSamples, TestAverageCounts, 1, 10)
    \/ InitLiteral(10, 1, TestTotalSamples, TestTotalCounts, 1, 10)

\* The windows New constructs together with the tests' literal windows.
SpecTests == (Init \/ InitTests) /\ [][Next]_vars

\* ------------------------------------------------- TestTotalFromNew
\* slidingwindow_test.go, TestTotalFromNew, in units of the granularity: the
\* test's goroutine constructs a window of 10 buckets and calls Add(10),
\* Add(20) and Total(1) one after the other, while the shifter started by New
\* runs beside it.
TestGoroutine == 1

InitFromNew ==
    /\ inW = 10
    /\ inG = 1
    /\ InitFrom(New(10, 1))

\* Line 130, sw.Add(10).
FromNewAdd10 ==
    /\ nAdds = 0
    /\ AddCall(TestGoroutine, 10)

\* Line 131, sw.Add(20), once Add(10) has returned.
FromNewAdd20 ==
    /\ nAdds = 1
    /\ AddCall(TestGoroutine, 20)

\* Line 132, sw.Total(time.Second), once Add(20) has returned.
FromNewTotal ==
    /\ nAdds = 2
    /\ TotalCall(TestGoroutine, "Total", 1)

\* Total's loop and return (lines 134-145), after which the test compares the
\* pair returned (lines 134-135) and ends.
FromNewReturn ==
    /\ pc[TestGoroutine] = "TotalLoop"
    /\ muR' = muR \ {TestGoroutine}
    /\ pc' = [pc EXCEPT ![TestGoroutine] = "done"]
    /\ frame' = [frame EXCEPT ![TestGoroutine] = NoFrame]
    /\ UNCHANGED <<inW, inG, err, window, granularity, samples, counts, pos, size, shifter,
                   muW, muPending, onceDone, onceM, sends, stopReturned, nAdds>>

\* The test's goroutine and the shifter. The test's goroutine is the only
\* caller, so its Add finds no reader inside and never waits for one.
NextFromNew ==
    \/ ShifterStart
    \/ ShifterTick
    \/ ShifterLock
    \/ ShifterWait
    \/ ShifterRotate
    \/ FromNewAdd10
    \/ FromNewAdd20
    \/ AddLock(TestGoroutine)
    \/ AddBody(TestGoroutine)
    \/ FromNewTotal
    \/ TotalRLock(TestGoroutine)
    \/ FromNewReturn

SpecFromNew == InitFromNew /\ [][NextFromNew]_vars

\* ------------------------------------------- a query beside a Reset
\* Two goroutines and the shifter on one window: the reader calls Total or
\* Average again and again; the writer calls Reset and, once a Reset has
\* returned, Add. No value is added to the window before its first Reset.
Reader == 1
Writer == 2

\* The writer's call of Add, made after its Reset (which left size at 0).
WriterAdd(v) ==
    /\ size = 0
    /\ AddCall(Writer, v)

NextResetRace ==
    \/ ShifterStart
    \/ ShifterTick
    \/ ShifterLock
    \/ ShifterWait
    \/ ShifterRotate
    \/ \E fn \in {"Total", "Average"}, w \in Lookbacks : TotalCall(Reader, fn, w)
    \/ TotalRLock(Reader)
    \/ TotalLoop(Reader)
    \/ ResetCall(Writer)
    \/ ResetLock(Writer)
    \/ ResetWait(Writer)
    \/ ResetBody(Writer)
    \/ \E v \in AddValues : WriterAdd(v)
    \/ AddLock(Writer)
    \/ AddWait(Writer)
    \/ AddBody(Writer)

SpecResetRace == Init /\ [][NextResetRace]_vars

\* ------------------------------------------------------------ claims
Min(a, b) == IF a < b THEN a ELSE b

RECURSIVE SetSum(_, _)
SetSum(f, S) ==
    IF S = {} THEN 0
    ELSE LET x == CHOOSE y \in S : TRUE IN f[x] + SetSum(f, S \ {x})

\* The buckets the claim names: cursor, cursor-1, ..., cursor-n+1 modulo capacity.
LastBuckets(n) == {(pos - i) % Len0(samples) : i \in 0..(n - 1)}

\* The number of buckets the claim names for a look-back.
BucketsToSum(lb) == Min(lb \div granularity, size)

AddStep(c) == pc[c] = "AddCS" /\ pc'[c] = "idle"

\* C2: the step of Add(v) adds v to the cursor's value and 1 to the cursor's
\* count and leaves the cursor, size and every other bucket's value and count as
\* they were; and an Add that holds the lock always has a bucket to write (no
\* failure), whatever v is.
C2_AddChangesOnlyCurrentBucket ==
    /\ [][\A c \in Callers :
            AddStep(c) =>
                /\ samples'[pos] = samples[pos] + frame[c].arg
                /\ counts'[pos] = counts[pos] + 1
                /\ pos' = pos
                /\ size' = size
                /\ DOMAIN samples' = DOMAIN samples
                /\ DOMAIN counts' = DOMAIN counts
                /\ \A i \in DOMAIN samples :
                      i # pos => samples'[i] = samples[i] /\ counts'[i] = counts[i]]_vars
    /\ [](\A c \in Callers :
            pc[c] = "AddCS" => pos \in DOMAIN samples /\ pos \in DOMAIN counts)

\* C2 witness: Add(-1) has acted on a cursor bucket other than the first while
\* another bucket holds an earlier Add.
C2_Witness ==
    /\ Constructed
    /\ pos # 0
    /\ samples[pos] = -1
    /\ counts[pos] = 1
    /\ \E i \in DOMAIN samples : i # pos /\ counts[i] = 1 /\ samples[i] = 2

\* Whether w is an exact multiple of g.
Divides(g, w) == \E k \in (0 - Abs(w))..Abs(w) : w = k * g

\* No instance exists and no shifter goroutine was started.
NothingCreated ==
    /\ samples = <<>>
    /\ counts = <<>>
    /\ shifter = "none"

\* C3: New fails, with no instance and no rotation process, in this order: a
\* zero window gives the window error (also when the granularity is zero too);
\* otherwise a zero granularity gives the granularity error; otherwise a window
\* not above the granularity, or not a multiple of it, gives the multiplier
\* error.
C3_NewValidationOrder ==
    /\ inW = 0 => err = ErrWindow
    /\ inW # 0 /\ inG = 0 => err = ErrGranularity
    /\ inW # 0 /\ inG # 0 /\ (inW <= inG \/ ~Divides(inG, inW)) => err = ErrMultiplier
    /\ err \in {ErrWindow, ErrGranularity, ErrMultiplier} => NothingCreated

\* C3 witness: New(0, 0) has failed with the window error.
C3_Witness ==
    /\ inW = 0
    /\ inG = 0
    /\ err = ErrWindow
    /\ NothingCreated

\* C4: for every positive window and granularity with the window a multiple of
\* the granularity and above it, New succeeds and the state it leaves has
\* window / granularity >= 2 buckets, all values and counts 0, the cursor at 0,
\* size equal to the number of buckets, and the shifter goroutine started.
C4_NewInitialState ==
    /\ (inW > 0 /\ inG > 0 /\ inW > inG /\ Divides(inG, inW)) =>
          /\ err = ""
          /\ window = inW
          /\ granularity = inG
          /\ Len0(samples) * inG = inW
          /\ Len0(samples) >= 2
          /\ DOMAIN samples = 0..(Len0(samples) - 1)
          /\ DOMAIN counts = DOMAIN samples
          /\ \A i \in DOMAIN samples : samples[i] = 0 /\ counts[i] = 0
          /\ pos = 0
          /\ size = Len0(samples)
          /\ shifter = "spawned"
    /\ [][TRUE]_vars

\* C4 witness: New(4, 2) has just returned a window of two buckets.
C4_Witness ==
    /\ inW = 4
    /\ inG = 2
    /\ err = ""
    /\ Len0(samples) = 2
    /\ size = 2
    /\ shifter = "spawned"
    /\ \A c \in Callers : pc[c] = "idle"
    /\ nAdds = 0

\* C5: for every look-back above the window, Total returns the same pair as
\* Total of the window in the same state, and Average the same value.
C5_BeyondWindowSameAsWindow ==
    Constructed =>
        \A lb \in Lookbacks :
            lb > window =>
                /\ Total(lb) = Total(window)
                /\ Average(lb) = Average(window)

\* C5 witness: a look-back beyond a window whose full-window total is not
\* empty and is more than its current bucket holds.
C5_Witness ==
    /\ Constructed
    /\ \E lb \in Lookbacks : lb > window
    /\ Total(window)[2] = 2
    /\ Total(granularity)[2] = 1
    /\ Total(window)[1] # 0

\* C6: Average is 0 when Total's sample count is 0 and is otherwise Total's
\* sum divided by Total's sample count (the number of Adds, not of buckets);
\* on TestAverage's window it is 0, 4/2, 24/12, 38/18, 43/23 and 43/23 for
\* look-backs of 0, 1, 2, 4, 10 and 20 granularities.
C6_AverageIsSampleWeighted ==
    Constructed =>
        /\ \A lb \in Lookbacks :
              LET t == Total(lb)
                  q == Average(lb)
              IN  /\ t[2] = 0 => q = [num |-> 0, den |-> 1]
                  /\ t[2] # 0 => q.den > 0 /\ q.num * t[2] = t[1] * q.den
        /\ (/\ samples = TestAverageSamples
            /\ counts = TestAverageCounts
            /\ pos = 1
            /\ size = 10
            /\ window = 10
            /\ granularity = 1) =>
              /\ Average(0) = [num |-> 0, den |-> 1]
              /\ Average(1) = [num |-> 2, den |-> 1]
              /\ Average(2) = [num |-> 2, den |-> 1]
              /\ Average(4) = [num |-> 19, den |-> 9]
              /\ Average(10) = [num |-> 43, den |-> 23]
              /\ Average(20) = [num |-> 43, den |-> 23]

\* C6 witness: TestAverage's window, where a call of Average over 4
\* granularities holds the read lock and is about to return 38/18, which is
\* neither 38/4 (per bucket) nor an integer.
C6_Witness ==
    /\ samples = TestAverageSamples
    /\ counts = TestAverageCounts
    /\ pos = 1
    /\ size = 10
    /\ \E c \in Callers :
          /\ pc[c] = "TotalLoop"
          /\ frame[c].fn = "Average"
          /\ frame[c].sampleCount = 4
          /\ TotalReturns(c) = <<38, 18>>
          /\ AverageReturns(c) = [num |-> 19, den |-> 9]

\* The step in which caller c's Reset takes effect and returns.
ResetStep(c) == pc[c] = "ResetCS" /\ pc'[c] = "idle"

\* The step in which caller c calls Total or Average and computes sampleCount.
TotalCallStep(c) == pc[c] = "idle" /\ pc'[c] = "TotalRLock"

ZeroAverage == [num |-> 0, den |-> 1]

\* C7: the step of Reset sets the cursor and size to 0 and every bucket's
\* value and count to 0, and leaves the shifter goroutine as it was; and while
\* size is 0, Total is (0, 0) and Average is 0 for every look-back, whatever
\* was added since, and a call made then sums no bucket.
C7_ResetZeroesAndBlanksQueries ==
    /\ [][\A c \in Callers :
            /\ ResetStep(c) =>
                  /\ pos' = 0
                  /\ size' = 0
                  /\ DOMAIN samples' = DOMAIN samples
                  /\ DOMAIN counts' = DOMAIN counts
                  /\ \A i \in DOMAIN samples : samples'[i] = 0 /\ counts'[i] = 0
                  /\ shifter' = shifter
            /\ (TotalCallStep(c) /\ size = 0) =>
                  TotalReturns(c)' = <<0, 0>>]_vars
    /\ [](Constructed /\ size = 0 =>
            \A lb \in Lookbacks : Total(lb) = <<0, 0>> /\ Average(lb) = ZeroAverage)

\* C7 witness: after a Reset, with the shifter still rotating (the cursor has
\* moved on) and size 0, the current bucket holds a value added since.
C7_Witness ==
    /\ Constructed
    /\ size = 0
    /\ pos # 0
    /\ samples[pos] # 0
    /\ counts[pos] = 1
    /\ shifter = "select"

\* The step in which the shifter's tick takes effect.
TickStep == shifter = "tickCS" /\ shifter' = "select"

\* C8, as claimed: rotation ticks after a Reset repopulate size, so that the
\* tick that brings the cursor round to the first bucket again (the
\* capacity-th tick since the latest Reset, which put the cursor there) leaves
\* size positive.
C8_TicksRepopulateSize ==
    [][(TickStep /\ pos = Len0(samples) - 1) => size' > 0]_vars

InStop(c) == pc[c] \in {"OnceDo", "OnceLock", "OnceSlow", "StopSend", "OnceDefer"}

\* A step of caller c's call of Stop made with the Once's done flag set.
LaterStopStep(c) == InStop(c) /\ onceDone /\ pc'[c] # pc[c]

\* C9: over any number of sequential or concurrent calls of Stop, the send on
\* the stop channel is started at most once, and exactly once when some call
\* has returned; a call's steps made after the first call has completed change
\* nothing of the window, the shifter, the done flag or the channel (at most
\* they take and release the Once's mutex, free whenever no call is under
\* way); and every call of Stop returns.
C9_StopOneShot ==
    /\ [](sends <= 1)
    /\ [](stopReturned => sends = 1)
    /\ [](Cardinality({c \in Callers : pc[c] \in {"StopSend", "OnceDefer"}}) <= 1)
    /\ [][\A c \in Callers :
            LaterStopStep(c) =>
                UNCHANGED <<samples, counts, pos, size, shifter, muW, muR,
                            onceDone, sends>>]_vars
    /\ []((\A c \in Callers : ~InStop(c)) => onceM = {})
    /\ \A c \in Callers : InStop(c) ~> (pc[c] = "idle")

\* C9 witness: one call of Stop has returned and a second call is under way
\* with the done flag set.
C9_Witness ==
    /\ stopReturned
    /\ sends = 1
    /\ onceDone
    /\ \E c \in Callers : pc[c] = "OnceDo"

\* C10: once a call of Stop has returned the shifter goroutine has returned
\* and holds no lock; from then on the cursor changes only in a Reset step and
\* the buckets only in an Add or Reset step, which keep their effect, and
\* Reset, Total and Average can still be called by an idle caller.
C10_NoRotationAfterStop ==
    /\ [](stopReturned => shifter = "returned" /\ ShifterId \notin muW)
    /\ [][stopReturned =>
            /\ pos' # pos => \E c \in Callers : ResetStep(c)
            /\ (samples' # samples \/ counts' # counts) =>
                  \E c \in Callers : AddStep(c) \/ ResetStep(c)
            /\ \A c \in Callers :
                  AddStep(c) =>
                      /\ samples' = [samples EXCEPT ![pos] = @ + frame[c].arg]
                      /\ counts' = [counts EXCEPT ![pos] = @ + 1]]_vars
    /\ [](stopReturned =>
            \A c \in Callers :
                pc[c] = "idle" =>
                    /\ ENABLED ResetCall(c)
                    /\ \A lb \in Lookbacks :
                          ENABLED TotalCall(c, "Total", lb) /\ ENABLED TotalCall(c, "Average", lb))

\* C10 witness: after a call of Stop has returned, with the cursor where the
\* last tick left it, an Add holds the lock and is about to take effect.
C10_Witness ==
    /\ stopReturned
    /\ shifter = "returned"
    /\ pos # 0
    /\ \E c \in Callers : pc[c] = "AddCS"

\* The window of TestTotal's struct literal, untouched.
TestTotalState ==
    /\ samples = TestTotalSamples
    /\ counts = TestTotalCounts
    /\ pos = 1
    /\ size = 10
    /\ window = 10
    /\ granularity = 1

\* C11, as claimed: on TestTotal's window Total returns (2, 2), (3, 4), (7, 9),
\* (12, 13) and (12, 13) for look-backs of 1, 2, 4, 10 and 20 granularities.
C11_TestTotalAsClaimed ==
    TestTotalState =>
        /\ Total(1) = <<2, 2>>
        /\ Total(2) = <<3, 4>>
        /\ Total(4) = <<7, 9>>
        /\ Total(10) = <<12, 13>>
        /\ Total(20) = <<12, 13>>

\* C11: on TestTotal's window Total returns (2, 2), (3, 3), (7, 7), (12, 9)
\* and (12, 9) for look-backs of 1, 2, 4, 10 and 20 granularities: the totals
\* the test expects, and as sample count the sum of the counts of the buckets
\* summed.
C11_TestTotalFixture ==
    TestTotalState =>
        /\ Total(1) = <<2, 2>>
        /\ Total(2) = <<3, 3>>
        /\ Total(4) = <<7, 7>>
        /\ Total(10) = <<12, 9>>
        /\ Total(20) = <<12, 9>>

\* C11 witness: on TestTotal's window a call of Total over 4 granularities
\* holds the read lock and is about to return (7, 7), having wrapped round the
\* ring's start to the bucket holding 4 samples.
C11_Witness ==
    /\ TestTotalState
    /\ \E c \in Callers :
          /\ pc[c] = "TotalLoop"
          /\ frame[c].fn = "Total"
          /\ frame[c].sampleCount = 4
          /\ TotalReturns(c) = <<7, 7>>

\* Both of the test's Adds have taken effect in the cursor's bucket and no
\* tick has moved the cursor or zeroed the bucket since the first of them.
BothAddsInCurrentBucket ==
    /\ nAdds = 2
    /\ pc[TestGoroutine] \notin {"AddLock", "AddWait", "AddCS"}
    /\ samples[pos] = 10 + 20

\* C12, as claimed: on a fresh window of 10 granularities, after Add(10) and
\* Add(20) with no tick in between or since, Total over 1 granularity returns
\* the total 30 and the sample count 1.
C12_TotalFromNewAsClaimed ==
    (pc[TestGoroutine] = "TotalLoop" /\ BothAddsInCurrentBucket) =>
        TotalReturns(TestGoroutine) = <<30, 1>>

\* What the code returns there: the total 30 and the sample count 2, one
\* sample for each Add.
C12_TotalFromNewReturns ==
    (pc[TestGoroutine] = "TotalLoop" /\ BothAddsInCurrentBucket) =>
        TotalReturns(TestGoroutine) = <<30, 2>>

\* The test's call of Total is about to return with both Adds in the cursor's
\* bucket and the cursor where New left it.
C12_Reached ==
    /\ pc[TestGoroutine] = "TotalLoop"
    /\ BothAddsInCurrentBucket
    /\ pos = 0
    /\ size = 10

\* C13: the tick's step sets the cursor to (cursor + 1) modulo the capacity
\* and the value and count of the new current bucket to 0, and leaves size and
\* every other bucket as they were; it is one step for the callers, because
\* while the shifter is between its Lock and Unlock it alone holds the lock and
\* no Add, Reset or Total is at its reads or writes of the ring; and in no step
\* does the cursor move to a bucket that keeps an earlier value or count.
C13_TickIsAtomic ==
    /\ [][TickStep =>
            /\ pos' = (pos + 1) % Len0(samples)
            /\ samples'[pos'] = 0
            /\ counts'[pos'] = 0
            /\ size' = size
            /\ DOMAIN samples' = DOMAIN samples
            /\ DOMAIN counts' = DOMAIN counts
            /\ \A i \in DOMAIN samples :
                  i # pos' => samples'[i] = samples[i] /\ counts'[i] = counts[i]]_vars
    /\ [](shifter = "tickCS" =>
            /\ muW = {ShifterId}
            /\ muR = {}
            /\ \A c \in Callers : pc[c] \notin {"AddCS", "ResetCS", "TotalLoop"})
    /\ [][pos' # pos => samples'[pos'] = 0 /\ counts'[pos'] = 0]_vars

\* C13 witness: in a window of two buckets that was never Reset, both Adds
\* were made and have returned, the cursor has come round to the first bucket
\* again, and the tick that brought it there has wiped the value added there
\* earlier, keeping the other bucket's.
C13_Witness ==
    /\ Constructed
    /\ Len0(samples) = 2
    /\ size = 2
    /\ nAdds = 2
    /\ \A c \in Callers : pc[c] = "idle"
    /\ shifter = "select"
    /\ pos = 0
    /\ samples[0] = 0
    /\ counts[0] = 0
    /\ samples[1] = -1
    /\ counts[1] = 1

\* C14: in every reachable state of a constructed window the cursor is an
\* index of both arrays, 0 <= cursor < capacity, and so are the bucket the
\* next tick will zero and every bucket a call of Total holding the read lock
\* visits.
C14_CursorInRange ==
    Constructed =>
        /\ 0 <= pos
        /\ pos < Len0(samples)
        /\ DOMAIN samples = 0..(Len0(samples) - 1)
        /\ DOMAIN counts = DOMAIN samples
        /\ NextPos(pos, Len0(samples)) \in DOMAIN samples
        /\ \A c \in Callers :
              pc[c] = "TotalLoop" =>
                  \A i \in 0..(frame[c].sampleCount - 1) : LoopPos(i) \in DOMAIN samples

\* C14 witness: in a window of four buckets the cursor has gone through the
\* last bucket, where an Add was recorded, and wrapped to the first, and a
\* call of Total over the whole window holds the read lock, its walk wrapping
\* the other way.
C14_Witness ==
    /\ Constructed
    /\ Len0(samples) = 4
    /\ pos = 0
    /\ counts[3] = 1
    /\ \E c \in Callers : pc[c] = "TotalLoop" /\ frame[c].sampleCount = 4

\* A step that writes the ring, the cursor or size.
WritesShared == samples' # samples \/ counts' # counts \/ pos' # pos \/ size' # size

\* The writer whose critical section the step is.
WriterHoldsLock ==
    \/ shifter = "tickCS" /\ muW = {ShifterId}
    \/ \E c \in Callers : pc[c] \in {"AddCS", "ResetCS"} /\ muW = {c}

\* The step in which caller c's call of Total reads sw.size (line 127).
ReadsSize(c) == TotalCallStep(c)

\* The writes of the ring, the cursor and size are made by the holder of the
\* exclusive lock, and Total's reads of the buckets and the cursor (its loop)
\* are made holding the shared lock with no writer inside.
C15_WritesAndLoopLocked ==
    /\ [][WritesShared => WriterHoldsLock]_vars
    /\ [](\A c \in Callers : pc[c] = "TotalLoop" => c \in muR /\ muW = {})
    /\ [](muW # {} => muR = {})

\* C15, as claimed: every write of the buckets, the cursor and size by Add, a
\* tick or Reset is made holding the exclusive lock, and every read of them by
\* Total, the read of size included, is made holding at least the shared lock,
\* so that no read by Total is made while a writer holds the lock.
C15_LockDiscipline ==
    /\ C15_WritesAndLoopLocked
    /\ [][\A c \in Callers :
            ReadsSize(c) => /\ c \in muR \cup muW
                            /\ \A d \in Callers : pc[d] # "ResetCS"]_vars

\* A call of Total has read size while a Reset held the exclusive lock.
C15_Reached ==
    \E c, d \in Callers :
        /\ pc[c] = "TotalRLock"
        /\ pc[d] = "ResetCS"
        /\ c \notin muR
        /\ muW = {d}

\* With no Add before the first Reset and size 0 after it, Total run without
\* interruption returns (0, 0) in every state the window is ever in, for every
\* look-back.
C16_EveryStateTotalsZero ==
    Constructed => \A lb \in Lookbacks : Total(lb) = <<0, 0>>

\* C16, as claimed: the pair a call of Total returns is the pair Total run
\* without interruption gives in one of the states the window was in between
\* the call and its return; here every such state gives (0, 0), so the call
\* returns (0, 0).
C16_ReadConsistent ==
    pc[Reader] = "TotalLoop" =>
        /\ \E lb \in Lookbacks : TotalReturns(Reader) = Total(lb)
        /\ TotalReturns(Reader) = <<0, 0>>

\* The reader's call computed sampleCount from the size New had set, a Reset
\* and an Add came between, and the call is about to return a sample that no
\* state of the window gives.
C16_Reached ==
    /\ pc[Reader] = "TotalLoop"
    /\ size = 0
    /\ frame[Reader].sampleCount > 0
    /\ TotalReturns(Reader)[2] = 1

\* The k buckets cursor, cursor-1, ..., cursor-k+1 modulo the capacity (all of
\* them when k is the capacity or more) hold the value 0 and the count 0.
ZeroRun(k) ==
    \A i \in 0..(Min(k, Len0(samples)) - 1) :
        samples[LoopPos(i)] = 0 /\ counts[LoopPos(i)] = 0

\* C17: k ticks with no Add taking effect from the first of them on leave the
\* k buckets cursor, ..., cursor-k+1 zeroed, and Total(k * granularity) then
\* returns (0, 0), for every k from 1 to the capacity. Step by step: a tick
\* lengthens the run of zeroed buckets behind the cursor by one; every step
\* other than an Add's keeps the run; and over a run of k zeroed buckets Total
\* of k granularities is (0, 0), run without interruption or by a call that
\* holds the read lock.
C17_TicksZeroTheLookback ==
    /\ [][\A k \in 0..MaxWindow : (TickStep /\ ZeroRun(k)) => ZeroRun(k + 1)']_vars
    /\ [][\A k \in 0..MaxWindow :
            (ZeroRun(k) /\ ~(\E c \in Callers : AddStep(c))) => ZeroRun(k)']_vars
    /\ [](Constructed =>
            \A k \in 1..Len0(samples) :
                ZeroRun(k) => Total(k * granularity) = <<0, 0>>)
    /\ [](\A c \in Callers :
            pc[c] = "TotalLoop" =>
                \A k \in 1..Len0(samples) :
                    (ZeroRun(k) /\ frame[c].sampleCount <= k) =>
                        TotalReturns(c) = <<0, 0>>)

\* C17 witness: in a window never Reset the one Add made so far lies two
\* ticks back, the two buckets since are zeroed, and a call of Total over two
\* granularities holds the read lock and returns (0, 0).
C17_Witness ==
    /\ Constructed
    /\ size = Len0(samples)
    /\ Len0(samples) >= 3
    /\ nAdds = 1
    /\ counts[LoopPos(2)] = 1
    /\ samples[LoopPos(2)] # 0
    /\ ZeroRun(2)
    /\ \E c \in Callers :
          /\ pc[c] = "TotalLoop"
          /\ frame[c].sampleCount = 2
          /\ TotalReturns(c) = <<0, 0>>

\* C18: under fair scheduling of the callers and the shifter every call of
\* Add, Total, Average, Reset and Stop returns: a caller inside a call is
\* always later idle again, whatever the other caller and the shifter do.
C18_EveryCallReturns ==
    \A c \in Callers : (pc[c] # "idle") ~> (pc[c] = "idle")

\* C18 witness: the lock, the channel and the Once meet: a call of Stop has
\* started its send under the Once's mutex while the shifter, having taken a
\* tick, waits for the exclusive lock behind a call of Total that holds the
\* read lock.
C18_Witness ==
    /\ shifter = "tickWait"
    /\ muPending = {ShifterId}
    /\ \E c, d \in Callers :
          /\ pc[c] = "StopSend"
          /\ onceM = {c}
          /\ pc[d] = "TotalLoop"
          /\ d \in muR

\* The value and count of the bucket d places behind the cursor.
BucketBehind(d) ==
    <<samples[(pos - d) % Len0(samples)], counts[(pos - d) % Len0(samples)]>>

\* The window has never been Reset: size is as New set it.
NeverReset == Constructed /\ size = Len0(samples)

\* C19: in a window never Reset a sample added by Add and followed by t ticks
\* is counted by Total(j * granularity), 1 <= j <= capacity, exactly when
\* t < j. Step by step: Add puts the sample (v, 1) into the bucket 0 places
\* behind the cursor and leaves the others; a tick moves the content d places
\* behind to d + 1 places behind, for every d up to capacity - 2, and drops the
\* content capacity - 1 places behind, leaving (0, 0) at the cursor; no other
\* step but a Reset changes a bucket's place or content; and Total of j
\* granularities, run without interruption or by a call holding the read
\* lock, is the sum of the contents 0 to j - 1 places behind the cursor.
C19_SlidingExpiry ==
    /\ [][\A c \in Callers :
            AddStep(c) =>
                /\ BucketBehind(0)' =
                      <<BucketBehind(0)[1] + frame[c].arg, BucketBehind(0)[2] + 1>>
                /\ \A d \in 1..(Len0(samples) - 1) : BucketBehind(d)' = BucketBehind(d)]_vars
    /\ [][TickStep =>
            /\ \A d \in 0..(Len0(samples) - 2) : BucketBehind(d + 1)' = BucketBehind(d)
            /\ BucketBehind(0)' = <<0, 0>>]_vars
    /\ [][(Constructed /\ ~TickStep /\ ~(\E c \in Callers : AddStep(c) \/ ResetStep(c))) =>
            \A d \in 0..(Len0(samples) - 1) : BucketBehind(d)' = BucketBehind(d)]_vars
    /\ [](NeverReset =>
            /\ \A j \in 1..Len0(samples) :
                  Total(j * granularity) =
                      <<SetSum(samples, LastBuckets(j)), SetSum(counts, LastBuckets(j))>>
            /\ \A c \in Callers :
                  pc[c] = "TotalLoop" =>
                      TotalReturns(c) =
                          <<SetSum(samples, LastBuckets(frame[c].sampleCount)),
                            SetSum(counts, LastBuckets(frame[c].sampleCount))>>)

\* C19 witness: in a window of four buckets never Reset, the sample 2 lies
\* one tick back and the sample -1 three ticks back, and a call of Total over
\* two granularities holds the read lock and returns (2, 1): the first sample
\* and not the second.
C19_Witness ==
    /\ NeverReset
    /\ Len0(samples) = 4
    /\ BucketBehind(0) = <<0, 0>>
    /\ BucketBehind(1) = <<2, 1>>
    /\ BucketBehind(2) = <<0, 0>>
    /\ BucketBehind(3) = <<-1, 1>>
    /\ \E c \in Callers :
          /\ pc[c] = "TotalLoop"
          /\ frame[c].sampleCount = 2
          /\ TotalReturns(c) = <<2, 1>>

\* C20, as claimed: whatever the two durations, negative ones included, New
\* ends either with one of its three errors or with a window whose capacity
\* window / granularity is a whole number of at least 2 and whose granularity,
\* the ticker's interval, is positive.
C20_NewIsTotal ==
    \/ err \in {ErrWindow, ErrGranularity, ErrMultiplier}
    \/ /\ err = ""
       /\ Len0(samples) >= 2
       /\ Len0(samples) * inG = inW
       /\ granularity > 0

\* The durations that make can allocate for get the claimed outcome: the
\* inputs on which New ends otherwise are those that pass the validation with
\* a negative granularity.
C20_NewIsTotalButForNegativeGranularity ==
    (inG > 0 \/ inW <= inG \/ inW = 0 \/ ~Divides(inG, inW)) => C20_NewIsTotal

\* New(4, -2) has passed the validation and panicked in make.
C20_Reached ==
    /\ inW = 4
    /\ inG = -2
    /\ err = PanicMakeslice
    /\ NothingCreated

====
